---- MODULE Spec2Model ----
(***************************************************************************)
(* A model of the kd-tree crate: the in-place build (kd_sort_by), the      *)
(* single-nearest and k-nearest searches, and the box / radius range       *)
(* queries over the implicit (position-encoded) tree.                      *)
(*                                                                         *)
(* A tree is the array `items`; a sub-tree is a slice [lo, hi] of it       *)
(* (1-based, inclusive; hi = lo - 1 is the empty slice).  An item is       *)
(* referred to by its position in the array, as the code refers to it by   *)
(* reference.  Scalars are small integers.                                 *)
(***************************************************************************)
EXTENDS Integers, Sequences, FiniteSets, TLC

\* ---------------------------------------------------------------- bounds
MaxN == 4
MaxCoord == 1
MaxK == 4
MaxRadius == 2
MaxForkN == 5
MaxNaNN == 3
MaxBufN == 3

\* KdPoint::dim(): the dimension of the point type the model is instantiated at.
Dim == 2

VARIABLES
    items,    \* the collection being built / the built tree (a sequence of points)
    tasks,    \* calls of kd_sort_by::recurse that were made and have not run yet
    joins,    \* calls of kd_sort_by::recurse that wait in rayon::join for their halves
    source,   \* the collection the caller keeps while the tree is built
    by_index, \* whether `items` holds indices into `source` (KdIndexTreeN)
    nan_sign, \* whether the platform's NaN has its sign bit set
    call,     \* the query made on the built tree: its name and arguments
    ret       \* what that query returned

vars == <<items, tasks, joins, source, by_index, nan_sign, call, ret>>

\* What a query leaves alone.
build_state == <<items, tasks, joins, source, by_index, nan_sign>>

\* ---------------------------------------------------------------- scalars
\* The non-comparable scalar (a float NaN), encoded as an integer that no
\* arithmetic of the model reaches.
NaN == -1000

is_nan(x) == x = NaN

\* Float subtraction, addition, multiplication: NaN in, NaN out.
fsub(a, b) == IF is_nan(a) \/ is_nan(b) THEN NaN ELSE a - b
fadd(a, b) == IF is_nan(a) \/ is_nan(b) THEN NaN ELSE a + b
fmul(a, b) == IF is_nan(a) \/ is_nan(b) THEN NaN ELSE a * b

\* PartialOrd::partial_cmp; "None" when an operand is NaN.
partial_cmp(a, b) ==
    IF is_nan(a) \/ is_nan(b) THEN "None"
    ELSE IF a < b THEN "Less" ELSE IF a > b THEN "Greater" ELSE "Equal"

\* The operators <, <=, > and != of PartialOrd / PartialEq.
lt(a, b) == partial_cmp(a, b) = "Less"
le(a, b) == partial_cmp(a, b) \in {"Less", "Equal"}
gt(a, b) == partial_cmp(a, b) = "Greater"
ne(a, b) == partial_cmp(a, b) # "Equal"

\* ---------------------------------------------------------------- points
Scalar == 0..MaxCoord
Points == [1..Dim -> Scalar]

\* KdPoint::at for [T; N]; the code's axes are 0-based.
at(item, i) == item[i + 1]

\* The sum of the squared differences of the first n axes.
RECURSIVE SumTo(_, _, _)
SumTo(f, q, n) ==
    IF n = 0 THEN 0
    ELSE fadd(SumTo(f, q, n - 1), fmul(fsub(f[n], q[n]), fsub(f[n], q[n])))

\* The distance metric of the point type: the sum of squared per-axis differences.
distance_metric(item, query) == SumTo(item, query, Dim)

\* The companion transform from a per-axis difference to the metric: the square.
from_distance_to_metric(diff) == fmul(diff, diff)

\* Signed::is_negative: the sign bit, which a NaN carries too.
is_negative(x) == IF is_nan(x) THEN nan_sign ELSE x < 0

\* ---------------------------------------------------------------- ordering
\* Variant of OrdHelper::cmp that calls every non-comparable pair Equal.
OrdHelper_cmp_unwrap_or_equal(a, b) ==
    IF partial_cmp(a, b) # "None" THEN partial_cmp(a, b) ELSE "Equal"

\* OrdHelper::cmp: partial_cmp when it answers; otherwise the operand that is
\* NaN-like (x != x) goes to the end, and two of them are Equal.
OrdHelper_cmp(a, b) ==
    IF partial_cmp(a, b) # "None" THEN partial_cmp(a, b)
    ELSE IF ne(a, a) /\ ~ne(b, b) THEN "Greater"
    ELSE IF ~ne(a, a) /\ ne(b, b) THEN "Less"
    ELSE "Equal"

\* ---------------------------------------------------------------- slices
EmptySlice == [lo |-> 1, hi |-> 0]
Slice(lo, hi) == [lo |-> lo, hi |-> hi]
WholeSlice(seq) == Slice(1, Len(seq))
SliceLen(s) == s.hi - s.lo + 1
is_empty(s) == SliceLen(s) = 0

\* Variant of split_at_mid that splits at (len - 1) / 2.
split_at_mid_low(s) ==
    IF is_empty(s)
    THEN [before |-> EmptySlice, item |-> 0, after |-> EmptySlice]
    ELSE LET index == (SliceLen(s) - 1) \div 2 IN
         [before |-> Slice(s.lo, s.lo + index - 1),
          item   |-> s.lo + index,
          after  |-> Slice(s.lo + index + 1, s.hi)]

\* split_at_mid: (items[..index], Some(items[index]), items[index + 1..]) with
\* index = len / 2; item = 0 stands for None.
split_at_mid(s) ==
    IF is_empty(s)
    THEN [before |-> EmptySlice, item |-> 0, after |-> EmptySlice]
    ELSE LET index == SliceLen(s) \div 2 IN
         [before |-> Slice(s.lo, s.lo + index - 1),
          item   |-> s.lo + index,
          after  |-> Slice(s.lo + index + 1, s.hi)]

\* ---------------------------------------------------------------- build
\* Variant of the arrangements in which a place of the slice may be
\* overwritten with a copy of another.
Overwritings(seq, s) ==
    LET R == s.lo..s.hi IN
    {[i \in 1..Len(seq) |-> IF i \in R THEN seq[f[i]] ELSE seq[i]] : f \in [R -> R]}

\* The arrangements of `seq` that differ from it only inside slice s.
Rearrangements(seq, s) ==
    LET R == s.lo..s.hi IN
    {[i \in 1..Len(seq) |-> IF i \in R THEN seq[f[i]] ELSE seq[i]] : f \in Permutations(R)}

\* The coordinate that the build compares an element of the array by: the
\* element's own, or, in an index tree, that of the point it indexes (0-based)
\* in the caller's collection.
sort_key(item, axis) ==
    IF by_index THEN at(source[item + 1], axis) ELSE at(item, axis)

\* What select_nth_unstable_by_key promises of slice s after the call: the
\* element at offset `index` is in its sorted place under the key
\* OrdHelper(item.at(axis)), nothing before it is greater and nothing after it
\* is less.
Selected(seq, s, index, axis) ==
    LET mid == s.lo + index IN
    /\ \A i \in s.lo..(mid - 1) :
          OrdHelper_cmp(sort_key(seq[i], axis), sort_key(seq[mid], axis)) # "Greater"
    /\ \A i \in (mid + 1)..s.hi :
          OrdHelper_cmp(sort_key(seq[i], axis), sort_key(seq[mid], axis)) # "Less"

\* Variant of the selection that keys on axis 0 at every depth.
select_nth_on_first_axis(seq, s, index, axis) ==
    {new \in Rearrangements(seq, s) : Selected(new, s, index, 0)}

\* select_nth_unstable_by_key: any rearrangement of the slice that is Selected
\* (the selection is unstable: ties may land on either side).
select_nth_unstable_by_key(seq, s, index, axis) ==
    {new \in Rearrangements(seq, s) : Selected(new, s, index, axis)}

Task(s, axis) == [lo |-> s.lo, hi |-> s.hi, axis |-> axis]

\* kd_sort_by: recurse(items, 0) is called.
kd_sort_by(seq) == {Task(WholeSlice(seq), 0)}

\* The two calls that recurse(t) hands to rayon::join: `before` and `after`
\* of the selection at len / 2, with the next axis.
halves(t) ==
    LET index == SliceLen(t) \div 2
        axis  == (t.axis + 1) % Dim
    IN { Task(Slice(t.lo, t.lo + index - 1), axis),
         Task(Slice(t.lo + index + 1, t.hi), axis) }

\* One call of kd_sort_by::recurse on slice t: a slice of two or more items is
\* selected at len / 2, the two halves are handed to rayon::join with the
\* next axis and the call waits for them; a shorter slice is left alone and
\* the call returns.
sort_recurse(t) ==
    /\ t \in tasks
    /\ IF SliceLen(t) >= 2
       THEN \E new \in select_nth_unstable_by_key(items, t, SliceLen(t) \div 2, t.axis) :
               /\ items' = new
               /\ tasks' = (tasks \ {t}) \cup halves(t)
               /\ joins' = joins \cup {t}
       ELSE /\ items' = items
            /\ tasks' = tasks \ {t}
            /\ joins' = joins
    /\ UNCHANGED <<source, by_index, nan_sign, call, ret>>

\* Variant of the join that does not wait for the two closures.
join_done_early(t) == TRUE

\* rayon::join returns once both of its closures have returned.
join_done(t) == halves(t) \cap (tasks \cup joins) = {}

\* The return of a call of recurse that waited in rayon::join.
join_return(t) ==
    /\ t \in joins
    /\ join_done(t)
    /\ joins' = joins \ {t}
    /\ UNCHANGED <<items, tasks, source, by_index, nan_sign, call, ret>>

\* kd_sort_by run to its end on slice s of seq: every array that the calls of
\* recurse can leave behind, whatever the selections choose among ties.
RECURSIVE sorted(_, _, _)
sorted(seq, s, axis) ==
    IF SliceLen(s) < 2 THEN {seq}
    ELSE LET index  == SliceLen(s) \div 2
             next   == (axis + 1) % Dim
             before == Slice(s.lo, s.lo + index - 1)
             after  == Slice(s.lo + index + 1, s.hi)
         IN UNION { UNION { sorted(b, after, next) : b \in sorted(new, before, next) } :
                    new \in select_nth_unstable_by_key(seq, s, index, axis) }

\* The build has returned and no query has been made yet.
Built == tasks = {} /\ joins = {}
Idle == Built /\ call.op = "none"

\* ---------------------------------------------------------------- nearest
NoBest == [pos |-> 0, dist |-> 0]

\* kd_nearest: the branch-and-bound traversal of the single-nearest search.
RECURSIVE nearest_recurse(_, _, _, _, _)
nearest_recurse(best, kdtree, s, query, axis) ==
    LET sp == split_at_mid(s) IN
    IF sp.item = 0 THEN best
    ELSE LET item  == kdtree[sp.item]
             d     == distance_metric(item, query)
             best1 == IF best.pos = 0 \/ lt(d, best.dist)
                      THEN [pos |-> sp.item, dist |-> d]
                      ELSE best
             diff  == fsub(at(query, axis), at(item, axis))
             branch1 == IF is_negative(diff) THEN sp.before ELSE sp.after
             branch2 == IF is_negative(diff) THEN sp.after ELSE sp.before
             next  == (axis + 1) % Dim
             best2 == nearest_recurse(best1, kdtree, branch1, query, next)
         IN IF lt(from_distance_to_metric(diff), best2.dist)
            THEN nearest_recurse(best2, kdtree, branch2, query, next)
            ELSE best2

kd_nearest(kdtree, query) ==
    nearest_recurse(NoBest, kdtree, WholeSlice(kdtree), query, 0)

\* Variant of nearest without the is_empty() test.
nearest_unguarded(kdtree, query) ==
    LET b == kd_nearest(kdtree, query) IN
    [kind |-> "Some", pos |-> b.pos, dist |-> b.dist]

\* KdSliceN::nearest: None on an empty tree, Some(kd_nearest(..)) otherwise.
nearest(kdtree, query) ==
    IF Len(kdtree) = 0
    THEN [kind |-> "None", pos |-> 0, dist |-> 0]
    ELSE LET b == kd_nearest(kdtree, query) IN
         [kind |-> "Some", pos |-> b.pos, dist |-> b.dist]

\* KdSliceN::nearest_by with the coordinate accessor |item, k| item.at(k).
nearest_by(kdtree, query) ==
    IF Len(kdtree) = 0
    THEN [kind |-> "None", pos |-> 0, dist |-> 0]
    ELSE LET b == kd_nearest(kdtree, query) IN
         [kind |-> "Some", pos |-> b.pos, dist |-> b.dist]

\* A call of nearest with a query drawn from P.
NearestOn(P) ==
    /\ Idle
    /\ \E query \in P :
          /\ call' = [op |-> "nearest", query |-> query]
          /\ ret' = nearest(items, query)
    /\ UNCHANGED build_state

Nearest == NearestOn(Points)

\* A call of nearest_by with a query drawn from P.
NearestByOn(P) ==
    /\ Idle
    /\ \E query \in P :
          /\ call' = [op |-> "nearest_by", query |-> query]
          /\ ret' = nearest_by(items, query)
    /\ UNCHANGED build_state

NearestBy == NearestByOn(Points)

\* ---------------------------------------------------------------- k-nearest
\* VecLike over a buffer of (position, distance) entries, nearest first.
last(buf) == buf[Len(buf)]
truncate(buf, new_size) == SubSeq(buf, 1, new_size)
\* Variant of insert that pushes the value at the end.
insert_at_end(buf, index, value) == Append(buf, value)

insert(buf, index, value) ==
    SubSeq(buf, 1, index) \o <<value>> \o SubSeq(buf, index + 1, Len(buf))

\* binary_search_by_key(&OrdHelper(distance_metric), |e| OrdHelper(e.distance_metric))
\* .unwrap_or_else(|i| i): the 0-based index of an entry with an Equal key when
\* there is one (which one is the library's choice: `pick` names the first or
\* the last), and else the index at which the key keeps the buffer sorted.
binary_search_by_key(buf, key, pick) ==
    LET eq == {i \in 1..Len(buf) : OrdHelper_cmp(buf[i].dist, key) = "Equal"}
        less == {i \in 1..Len(buf) : OrdHelper_cmp(buf[i].dist, key) = "Less"}
    IN IF eq = {} THEN Cardinality(less)
       ELSE IF pick = "first"
            THEN (CHOOSE i \in eq : \A j \in eq : i <= j) - 1
            ELSE (CHOOSE i \in eq : \A j \in eq : i >= j) - 1

\* The filter closures of the model: |item| item.at(0) < bound.
filter(bound, item) == lt(at(item, 0), bound)

\* The state of a traversal: the candidate buffer, whether unwrap() panicked,
\* and what the traversal did so far: the buffer before and after each node
\* was offered (`offers`), and each pruning test of an opposite half (`tests`).
Started == [buf |-> <<>>, panicked |-> FALSE, offers |-> <<>>, tests |-> <<>>]
Panicked == [buf |-> <<>>, panicked |-> TRUE, offers |-> <<>>, tests |-> <<>>]

\* The record of one offer.
offered(st, st1, pos) ==
    IF st1.panicked THEN st1
    ELSE [st1 EXCEPT !.offers =
             Append(@, [pos |-> pos, before |-> st.buf, after |-> st1.buf])]

\* The record of one pruning test.
tested(st, pos, branch2, diff, searched) ==
    [st EXCEPT !.tests =
        Append(@, [pos |-> pos, buf |-> st.buf, nonempty |-> ~is_empty(branch2),
                   bound |-> from_distance_to_metric(diff), searched |-> searched])]

\* kd_nearests::recurse, the part that offers the node to the buffer: when the
\* buffer has room or the node is closer than the last entry, a full buffer
\* loses its last entry, the place of the node is searched, and the node is
\* inserted if the filter accepts it.  last().unwrap() panics on an empty
\* buffer, which a buffer without room is only when its capacity is 0.
offer(st, pos, item, dm, q) ==
    IF Len(st.buf) >= q.capacity /\ Len(st.buf) = 0 THEN Panicked
    ELSE IF Len(st.buf) < q.capacity \/ lt(dm, last(st.buf).dist)
    THEN LET cut == IF Len(st.buf) = q.capacity
                    THEN truncate(st.buf, Len(st.buf) - 1)
                    ELSE st.buf
             i   == binary_search_by_key(cut, dm, q.pick)
         IN IF filter(q.filter, item)
            THEN [st EXCEPT !.buf = insert(cut, i, [pos |-> pos, dist |-> dm])]
            ELSE [st EXCEPT !.buf = cut]
    ELSE st

\* kd_nearests::recurse, the pruning test of the opposite half:
\* !branch2.is_empty() && nearests.last().map_or(true, |max| metric(diff) < max.distance_metric)
search_opposite(buf, branch2, diff) ==
    /\ ~is_empty(branch2)
    /\ (Len(buf) = 0 \/ lt(from_distance_to_metric(diff), last(buf).dist))

\* kd_nearests::recurse
RECURSIVE nearests_recurse(_, _, _, _, _)
nearests_recurse(st, kdtree, s, axis, q) ==
    LET sp == split_at_mid(s) IN
    IF st.panicked \/ sp.item = 0 THEN st
    ELSE LET item == kdtree[sp.item]
             st1  == offered(st, offer(st, sp.item, item, distance_metric(item, q.query), q),
                             sp.item)
             diff == fsub(at(q.query, axis), at(item, axis))
             branch1 == IF is_negative(diff) THEN sp.before ELSE sp.after
             branch2 == IF is_negative(diff) THEN sp.after ELSE sp.before
             next == (axis + 1) % Dim
             st2  == nearests_recurse(st1, kdtree, branch1, next, q)
         IN IF st1.panicked \/ st2.panicked THEN Panicked
            ELSE IF search_opposite(st2.buf, branch2, diff)
            THEN nearests_recurse(tested(st2, sp.item, branch2, diff, TRUE),
                                  kdtree, branch2, next, q)
            ELSE tested(st2, sp.item, branch2, diff, FALSE)

\* kd_nearests on an empty buffer of capacity q.capacity.
kd_nearests(kdtree, q) ==
    nearests_recurse(Started, kdtree, WholeSlice(kdtree), 0, q)

AcceptAll == MaxCoord + 1
FilterBounds == 0..AcceptAll

\* A call of nearests with a query drawn from P, a capacity drawn from K and
\* a filter bound drawn from F.
NearestsOn(P, K, F) ==
    /\ Idle
    /\ \E query \in P, k \in K, bound \in F, pick \in {"first", "last"} :
          LET q == [query |-> query, capacity |-> k, filter |-> bound, pick |-> pick]
              r == kd_nearests(items, q)
          IN /\ call' = [op |-> "nearests", query |-> query, capacity |-> k,
                         filter |-> bound]
             /\ ret' = [kind |-> IF r.panicked THEN "panic" ELSE "ok", buf |-> r.buf,
                        offers |-> r.offers, tests |-> r.tests]
    /\ UNCHANGED build_state

Nearests == NearestsOn(Points, 0..MaxK, FilterBounds)

\* ---------------------------------------------------------------- range search
\* The comparator of the box query: where the coordinate a of axis k lies with
\* respect to the box [query[1], query[2]].
within_compare(query, a, k) ==
    IF lt(a, at(query[1], k)) THEN "Less"
    ELSE IF gt(a, at(query[2], k)) THEN "Greater"
    ELSE "Equal"

\* The comparator of within_radius: the box [center - radius, center + radius].
radius_compare(center, radius, a, k) ==
    IF lt(a, fsub(at(center, k), radius)) THEN "Less"
    ELSE IF gt(a, fadd(at(center, k), radius)) THEN "Greater"
    ELSE "Equal"

\* The closure handed to kd_within_by_cmp, by what it captured.
compare(c, a, k) ==
    IF c.kind = "box" THEN within_compare(c.query, a, k)
    ELSE radius_compare(c.center, c.radius, a, k)

\* Variant of the all-axes test that does not start from the current axis.
all_axes_equal_unshifted(c, item, axis) ==
    \A i \in 1..(Dim - 1) : compare(c, at(item, i % Dim), i % Dim) = "Equal"

\* (1..dim).map(|i| (axis + i) % dim).all(|i| compare(item.at(i), i) == Equal)
all_axes_equal(c, item, axis) ==
    \A i \in 1..(Dim - 1) :
        compare(c, at(item, (axis + i) % Dim), (axis + i) % Dim) = "Equal"

\* The final_check closure of a query that has none: |_| true.
final_check(c, item) == TRUE

\* kd_within_by_cmp::recurse
RECURSIVE within_recurse(_, _, _, _, _)
within_recurse(results, kdtree, s, axis, c) ==
    LET sp == split_at_mid(s) IN
    IF sp.item = 0 THEN results
    ELSE LET item == kdtree[sp.item]
             next_axis == (axis + 1) % Dim
             ord  == compare(c, at(item, axis), axis)
         IN IF ord = "Equal"
            THEN LET pushed == IF all_axes_equal(c, item, axis) /\ final_check(c, item)
                               THEN Append(results, sp.item)
                               ELSE results
                     lower  == within_recurse(pushed, kdtree, sp.before, next_axis, c)
                 IN within_recurse(lower, kdtree, sp.after, next_axis, c)
            ELSE IF ord = "Less"
            THEN within_recurse(results, kdtree, sp.after, next_axis, c)
            ELSE within_recurse(results, kdtree, sp.before, next_axis, c)

kd_within_by_cmp(kdtree, c) ==
    within_recurse(<<>>, kdtree, WholeSlice(kdtree), 0, c)

\* Variant of within whose assertion rejects only corners that compare as
\* reversed.
within_rejecting_reversed(kdtree, query) ==
    IF \E k \in 0..(Dim - 1) : gt(at(query[1], k), at(query[2], k))
    THEN [kind |-> "panic", results |-> <<>>]
    ELSE [kind |-> "ok",
          results |-> kd_within_by_cmp(kdtree, [kind |-> "box", query |-> query])]

\* Variant of within without the assertion on the corners.
within_unchecked(kdtree, query) ==
    [kind |-> "ok", results |-> kd_within_by_cmp(kdtree, [kind |-> "box", query |-> query])]

\* KdSliceN::within: asserts query[0].at(k) <= query[1].at(k) on every axis,
\* then runs the box query.
within(kdtree, query) ==
    IF \A k \in 0..(Dim - 1) : le(at(query[1], k), at(query[2], k))
    THEN [kind |-> "ok",
          results |-> kd_within_by_cmp(kdtree, [kind |-> "box", query |-> query])]
    ELSE [kind |-> "panic", results |-> <<>>]

\* Variant of the retain closure with <= (the closed ball).
in_ball_closed(item, center, radius) ==
    le(SumTo(item, center, Dim), fmul(radius, radius))

\* The closure of results.retain in within_radius: distance < radius * radius.
in_ball(item, center, radius) ==
    lt(SumTo(item, center, Dim), fmul(radius, radius))

\* Vec::retain over a sequence of positions of kdtree.
RECURSIVE retain(_, _, _, _)
retain(results, kdtree, center, radius) ==
    IF results = <<>> THEN <<>>
    ELSE LET rest == retain(Tail(results), kdtree, center, radius) IN
         IF in_ball(kdtree[Head(results)], center, radius)
         THEN <<Head(results)>> \o rest
         ELSE rest

\* KdSliceN::within_radius
within_radius(kdtree, center, radius) ==
    LET results == kd_within_by_cmp(kdtree,
                       [kind |-> "radius", center |-> center, radius |-> radius])
    IN [kind |-> "ok", results |-> retain(results, kdtree, center, radius)]

\* A call of within with corners drawn from P.
WithinOn(P) ==
    /\ Idle
    /\ \E p1 \in P, p2 \in P :
          /\ call' = [op |-> "within", query |-> <<p1, p2>>]
          /\ ret' = within(items, <<p1, p2>>)
    /\ UNCHANGED build_state

Within == WithinOn(Points)

\* One negative radius stands for all of them.
Radii == (-1)..MaxRadius

\* A call of within_radius with a center drawn from P and a radius from R.
WithinRadiusOn(P, R) ==
    /\ Idle
    /\ \E center \in P, radius \in R :
          /\ call' = [op |-> "within_radius", center |-> center, radius |-> radius]
          /\ ret' = within_radius(items, center, radius)
    /\ UNCHANGED build_state

WithinRadius == WithinRadiusOn(Points, Radii)

\* ---------------------------------------------------------------- NaN coordinates
\* Points whose coordinates may be the NaN, and the calls made with them.
NaNScalar == {0, 1, NaN}
NaNPoints == [1..Dim -> NaNScalar]
NaNInputs == UNION {[1..n -> NaNPoints] : n \in 0..MaxNaNN}
NaNRadii == {-1, 1, NaN}

NearestNaN == NearestOn(NaNPoints)
NearestByNaN == NearestByOn(NaNPoints)
NearestsNaN == NearestsOn(NaNPoints, 0..MaxNaNN, {1, AcceptAll})
WithinNaN == WithinOn(NaNPoints)
WithinRadiusNaN == WithinRadiusOn(NaNPoints, NaNRadii)

\* ---------------------------------------------------------------- two trees
\* The same query made on the tree `items` and on the tree `source`, which was
\* built from an identical copy of the input.
TwinNearest ==
    /\ Idle
    /\ \E query \in Points :
          /\ call' = [op |-> "nearest", query |-> query]
          /\ ret' = [kind |-> "twin",
                     first |-> nearest(items, query),
                     second |-> nearest(source, query)]
    /\ UNCHANGED build_state

TwinNearests ==
    /\ Idle
    /\ \E query \in Points, k \in 1..MaxK, pick \in {"first", "last"} :
          LET q == [query |-> query, capacity |-> k, filter |-> AcceptAll, pick |-> pick]
          IN /\ call' = [op |-> "nearests", query |-> query, capacity |-> k,
                         filter |-> AcceptAll]
             /\ ret' = [kind |-> "twin",
                        first |-> kd_nearests(items, q),
                        second |-> kd_nearests(source, q)]
    /\ UNCHANGED build_state

TwinWithin ==
    /\ Idle
    /\ \E p1 \in Points, p2 \in Points :
          /\ call' = [op |-> "within", query |-> <<p1, p2>>]
          /\ ret' = [kind |-> "twin",
                     first |-> within(items, <<p1, p2>>),
                     second |-> within(source, <<p1, p2>>)]
    /\ UNCHANGED build_state

TwinWithinRadius ==
    /\ Idle
    /\ \E center \in Points, radius \in Radii :
          /\ call' = [op |-> "within_radius", center |-> center, radius |-> radius]
          /\ ret' = [kind |-> "twin",
                     first |-> within_radius(items, center, radius),
                     second |-> within_radius(source, center, radius)]
    /\ UNCHANGED build_state

\* ---------------------------------------------------------------- comparisons
\* The scalars handed to OrdHelper: comparable ones and the NaN.
Floats == ((-MaxRadius)..MaxRadius) \cup {NaN}

\* OrdHelper(x).cmp(..) evaluated on every pair drawn from three scalars.
Compare ==
    /\ call.op = "none"
    /\ \E x \in Floats, y \in Floats, z \in Floats :
          /\ call' = [op |-> "cmp", x |-> x, y |-> y, z |-> z]
          /\ ret' = [kind |-> "ok",
                     xx |-> OrdHelper_cmp(x, x),
                     xy |-> OrdHelper_cmp(x, y),
                     yx |-> OrdHelper_cmp(y, x),
                     yz |-> OrdHelper_cmp(y, z),
                     xz |-> OrdHelper_cmp(x, z)]
    /\ UNCHANGED build_state

\* ---------------------------------------------------------------- specifications
Inputs == UNION {[1..n -> Points] : n \in 0..MaxN}

\* KdTreeN::build_by on `input`: the collection is moved into the tree and
\* sorted in place; the caller keeps nothing.
build_by(input) ==
    /\ source = <<>>
    /\ by_index = FALSE
    /\ items = input
    /\ tasks = kd_sort_by(items)
    /\ joins = {}
    /\ call = [op |-> "none"]
    /\ ret = [kind |-> "none"]

Init ==
    /\ nan_sign = FALSE
    /\ \E input \in Inputs : build_by(input)

BuildStep == \E t \in tasks : sort_recurse(t)

JoinStep == \E t \in joins : join_return(t)

Next == BuildStep \/ JoinStep

\* The build alone.
Spec == Init /\ [][Next]_vars

\* The inputs of the fork-join runs: long enough for two halves that both
\* select and fork again, over points with two values per axis.
ForkPoints == [1..Dim -> {0, 1}]
ForkInputs == UNION {[1..n -> ForkPoints] : n \in 0..MaxForkN}

InitFork ==
    /\ nan_sign = FALSE
    /\ \E input \in ForkInputs : build_by(input)

\* The build alone, on the longer inputs.
SpecFork == InitFork /\ [][Next]_vars

\* A build of points that may hold NaN coordinates, on a platform of either
\* NaN sign.
InitNaN ==
    /\ nan_sign \in BOOLEAN
    /\ \E input \in NaNInputs : build_by(input)

NextNaN ==
    \/ BuildStep \/ JoinStep
    \/ NearestNaN \/ NearestByNaN \/ NearestsNaN \/ WithinNaN \/ WithinRadiusNaN

\* The build followed by one query, with NaN coordinates allowed everywhere;
\* every pending call of the build is eventually run (rayon runs every task it
\* is given).
SpecNaN ==
    /\ InitNaN
    /\ [][NextNaN]_vars
    /\ WF_vars(BuildStep)
    /\ WF_vars(JoinStep)

\* Two builds of identical copies of one input: `source` holds the tree that
\* the first build left, `items` is being built.
InitTwin ==
    /\ nan_sign = FALSE
    /\ by_index = FALSE
    /\ \E input \in Inputs :
          /\ source \in sorted(input, WholeSlice(input), 0)
          /\ items = input
          /\ tasks = kd_sort_by(items)
          /\ joins = {}
          /\ call = [op |-> "none"]
          /\ ret = [kind |-> "none"]

NextTwin ==
    \/ BuildStep \/ JoinStep
    \/ TwinNearest \/ TwinNearests \/ TwinWithin \/ TwinWithinRadius

\* Two builds of the same input followed by one query made on both trees.
SpecTwin == InitTwin /\ [][NextTwin]_vars

\* KdTreeN::build_by on `input`, of which the caller kept an identical copy.
build_by_copy(input) ==
    /\ source = input
    /\ by_index = FALSE
    /\ items = input
    /\ tasks = kd_sort_by(items)
    /\ joins = {}
    /\ call = [op |-> "none"]
    /\ ret = [kind |-> "none"]

\* KdIndexTreeN::build_by on the caller's collection `input`: the array
\* (0..source.len()).collect() is sorted, compared through `source`.
index_build_by(input) ==
    /\ source = input
    /\ by_index = TRUE
    /\ items = [i \in 1..Len(input) |-> i - 1]
    /\ tasks = kd_sort_by(items)
    /\ joins = {}
    /\ call = [op |-> "none"]
    /\ ret = [kind |-> "none"]

\* The collections that the caller keeps: each is carried through the whole
\* run, so they are the shorter ones, over points with two values per axis.
KeptInputs == UNION {[1..n -> ForkPoints] : n \in 0..MaxN}

InitReorder ==
    /\ nan_sign = FALSE
    /\ \E input \in KeptInputs : build_by_copy(input) \/ index_build_by(input)

\* The build of a tree of points and the build of an index tree, each with
\* the caller's collection kept beside it.
SpecReorder == InitReorder /\ [][Next]_vars

\* No tree: only scalars are compared.
InitOrd ==
    /\ nan_sign = FALSE
    /\ by_index = FALSE
    /\ source = <<>>
    /\ items = <<>>
    /\ tasks = {}
    /\ joins = {}
    /\ call = [op |-> "none"]
    /\ ret = [kind |-> "none"]

NextOrd == Compare

\* Comparisons of scalars through OrdHelper.
SpecOrd == InitOrd /\ [][NextOrd]_vars

NextNearest == BuildStep \/ JoinStep \/ Nearest \/ NearestBy

\* The build followed by one single-nearest query.
SpecNearest == Init /\ [][NextNearest]_vars

NextNearests == BuildStep \/ JoinStep \/ Nearests

\* The build followed by one k-nearest query.
SpecNearests == Init /\ [][NextNearests]_vars

\* The inputs of the runs that follow the candidate buffer step by step.
BufInputs == UNION {[1..n -> Points] : n \in 0..MaxBufN}

InitBuf ==
    /\ nan_sign = FALSE
    /\ \E input \in BufInputs : build_by(input)

\* A k-nearest search with a capacity of at least 1, without a filter or with
\* one that rejects some items.
NearestsBuf == NearestsOn(Points, 1..MaxBufN, {1, AcceptAll})

NextBuf == BuildStep \/ JoinStep \/ NearestsBuf

\* The build followed by one k-nearest query whose every step is recorded.
SpecBuf == InitBuf /\ [][NextBuf]_vars

NextWithin == BuildStep \/ JoinStep \/ Within \/ WithinRadius

\* The build followed by one range query.
SpecWithin == Init /\ [][NextWithin]_vars

\* ---------------------------------------------------------------- oracles
Positions == 1..Len(items)
Dists(query) == {distance_metric(items[i], query) : i \in Positions}
MinDist(query) == CHOOSE d \in Dists(query) : \A e \in Dists(query) : d <= e

\* The brute-force scan: the distances of the items at positions P, ascending.
RECURSIVE ScanAscending(_, _)
ScanAscending(P, query) ==
    IF P = {} THEN <<>>
    ELSE LET i == CHOOSE i \in P :
                    \A j \in P : distance_metric(items[i], query)
                                    <= distance_metric(items[j], query)
         IN <<distance_metric(items[i], query)>> \o ScanAscending(P \ {i}, query)

Min2(a, b) == IF a <= b THEN a ELSE b
Ascending(buf) == \A i \in 1..(Len(buf) - 1) : buf[i].dist <= buf[i + 1].dist
BufDists(buf) == [i \in 1..Len(buf) |-> buf[i].dist]
BufPositions(buf) == {buf[i].pos : i \in 1..Len(buf)}
Passing(bound) == {i \in Positions : filter(bound, items[i])}

\* The ImplicitTree invariant of slice s of seq, split at axis `axis`.
RECURSIVE ImplicitTree(_, _, _)
ImplicitTree(seq, s, axis) ==
    \/ SliceLen(s) <= 1
    \/ LET mid == s.lo + (SliceLen(s) \div 2) IN
       /\ \A i \in s.lo..(mid - 1) : at(seq[i], axis) <= at(seq[mid], axis)
       /\ \A i \in (mid + 1)..s.hi : at(seq[mid], axis) <= at(seq[i], axis)
       /\ ImplicitTree(seq, Slice(s.lo, mid - 1), (axis + 1) % Dim)
       /\ ImplicitTree(seq, Slice(mid + 1, s.hi), (axis + 1) % Dim)

\* ---------------------------------------------------------------- claims

\* C1: on a non-empty built tree, nearest returns an item of the tree whose
\* distance metric to the query is the minimum over all items of the tree (any
\* minimiser when several tie).
C1_NearestIsMinimal ==
    (call.op = "nearest" /\ Len(items) > 0) =>
        /\ ret.kind = "Some"
        /\ ret.pos \in Positions
        /\ ret.dist = distance_metric(items[ret.pos], call.query)
        /\ ret.dist = MinDist(call.query)

\* C1 witness: nearest answered on a full-size tree with an item that is not
\* the root, while a different point of the tree ties for the minimum.
C1_Witness ==
    /\ call.op = "nearest"
    /\ Len(items) = MaxN
    /\ ret.pos # split_at_mid(WholeSlice(items)).item
    /\ \E i \in Positions :
          /\ items[i] # items[ret.pos]
          /\ distance_metric(items[i], call.query) = ret.dist

\* C2 (as claimed): with a filter that accepts everything and 1 <= k <= n, the
\* k-nearest search returns exactly k entries, ascending by distance, whose
\* distances are the k smallest of a brute-force scan.
C2_UnfilteredKNearest ==
    (/\ call.op = "nearests"
     /\ call.filter = AcceptAll
     /\ 1 <= call.capacity
     /\ call.capacity <= Len(items)) =>
        /\ ret.kind = "ok"
        /\ Len(ret.buf) = call.capacity
        /\ Ascending(ret.buf)
        /\ BufDists(ret.buf) = SubSeq(ScanAscending(Positions, call.query), 1, call.capacity)

\* C3 (as claimed): with a filter and k >= 1, the k-nearest search returns
\* exactly the k nearest of the items the filter accepts (all of them when
\* fewer than k are accepted): every entry is accepted, and no accepted item
\* strictly closer than the worst entry is missing.
C3_FilteredKNearest ==
    (call.op = "nearests" /\ call.capacity >= 1) =>
        LET pass == Passing(call.filter)
            want == Min2(call.capacity, Cardinality(pass))
        IN /\ ret.kind = "ok"
           /\ BufPositions(ret.buf) \subseteq pass
           /\ BufDists(ret.buf) = SubSeq(ScanAscending(pass, call.query), 1, want)
           /\ \A i \in pass \ BufPositions(ret.buf) :
                 \A e \in 1..Len(ret.buf) :
                    distance_metric(items[i], call.query) >= ret.buf[e].dist

\* C4 (as claimed): with a filter and k >= 1, the number of entries returned
\* never exceeds k and is min(k, number of items the filter accepts).
C4_FilteredCount ==
    (call.op = "nearests" /\ call.capacity >= 1) =>
        /\ Len(ret.buf) <= call.capacity
        /\ Len(ret.buf) = Min2(call.capacity, Cardinality(Passing(call.filter)))

\* C7: when kd_sort_by has finished, the collection satisfies the ImplicitTree
\* invariant: in every sub-range reached by splitting at len / 2, with axis
\* depth mod Dim, nothing before the midpoint is greater than it on that axis
\* and nothing after it is less.
C7_BuildGivesImplicitTree ==
    Built => ImplicitTree(items, WholeSlice(items), 0)

\* C7 witness: a finished build of a full-size collection in which two items
\* share their coordinate on the root's axis and which is not simply sorted.
C7_Witness ==
    /\ Built
    /\ Len(items) = MaxN
    /\ \E i, j \in Positions : i < j /\ at(items[i], 0) = at(items[j], 0)
    /\ \E i, j \in Positions : i < j /\ at(items[i], 0) > at(items[j], 0)

C10_ZeroCapacityFaults ==
    (call.op = "nearests" /\ call.capacity = 0) => ret.kind = "panic"

NoDuplicates(seq) == \A i, j \in 1..Len(seq) : seq[i] = seq[j] => i = j
Range(seq) == {seq[i] : i \in 1..Len(seq)}
Ordered(query) == \A k \in 0..(Dim - 1) : at(query[1], k) <= at(query[2], k)
InBox(item, query) ==
    \A k \in 0..(Dim - 1) : at(query[1], k) <= at(item, k) /\ at(item, k) <= at(query[2], k)
InOpenBall(item, center, radius) ==
    SumTo(item, center, Dim) < radius * radius

\* C5: for corners with lo <= hi on every axis, within returns exactly the
\* items whose every coordinate lies in the closed interval [lo, hi] of its
\* axis, each of them once.
C5_WithinIsBox ==
    (call.op = "within" /\ Ordered(call.query)) =>
        /\ ret.kind = "ok"
        /\ NoDuplicates(ret.results)
        /\ Range(ret.results) = {i \in Positions : InBox(items[i], call.query)}

\* C5 witness: a box query on a full-size tree that returned some items but
\* not all, one of them tying with the root's splitting value without being
\* the root, while the box stops exactly at that value.
C5_Witness ==
    /\ call.op = "within"
    /\ Ordered(call.query)
    /\ Len(items) = MaxN
    /\ Len(ret.results) \in 1..(MaxN - 1)
    /\ LET root == split_at_mid(WholeSlice(items)).item IN
       \E i \in Range(ret.results) :
          /\ i # root
          /\ at(items[i], 0) = at(items[root], 0)
          /\ at(call.query[1], 0) = at(items[root], 0)

C9_ReversedBoxTolerated ==
    (call.op = "within" /\ ~Ordered(call.query)) => ret.kind = "ok"

\* C9 (amended): a box query with corners reversed on some axis is rejected:
\* within fails its assertion and returns no result; with ordered corners it
\* does not fault.
C9_ReversedBoxRejected ==
    call.op = "within" =>
        /\ ~Ordered(call.query) => (ret.kind = "panic" /\ ret.results = <<>>)
        /\ Ordered(call.query) => ret.kind = "ok"

\* C9 witness: within was called on a non-empty tree with corners reversed on
\* one axis only, and faulted.
C9_Witness ==
    /\ call.op = "within"
    /\ Len(items) > 0
    /\ at(call.query[1], 0) > at(call.query[2], 0)
    /\ at(call.query[1], 1) <= at(call.query[2], 1)
    /\ ret.kind = "panic"

\* ---------------------------------------------------------------- C11
reverse(o) == IF o = "Less" THEN "Greater" ELSE IF o = "Greater" THEN "Less" ELSE o

\* C11: OrdHelper::cmp is a total order on scalars that include a NaN: it is
\* reflexive, antisymmetric and transitive, orders two comparable scalars by
\* their natural order, puts a NaN Greater than every comparable scalar, and
\* calls two NaNs Equal.
C11_OrdHelperTotalOrder ==
    call.op = "cmp" =>
        /\ ret.xx = "Equal"
        /\ ret.xy = reverse(ret.yx)
        /\ (ret.xy # "Greater" /\ ret.yz # "Greater") => ret.xz # "Greater"
        /\ (ret.xy = "Equal" /\ ret.yz = "Equal") => ret.xz = "Equal"
        /\ (ret.xy = "Less" /\ ret.yz # "Greater") => ret.xz = "Less"
        /\ (ret.xy # "Greater" /\ ret.yz = "Less") => ret.xz = "Less"
        /\ (call.x # NaN /\ call.y # NaN) =>
               ret.xy = (IF call.x < call.y THEN "Less"
                         ELSE IF call.x > call.y THEN "Greater" ELSE "Equal")
        /\ (call.x = NaN /\ call.y # NaN) => ret.xy = "Greater"
        /\ (call.x # NaN /\ call.y = NaN) => ret.xy = "Less"
        /\ (call.x = NaN /\ call.y = NaN) => ret.xy = "Equal"

\* A NaN was compared with a comparable scalar and with another NaN.
C11_Witness ==
    /\ call.op = "cmp"
    /\ call.x = NaN /\ call.y # NaN /\ call.z = NaN
    /\ ret.xy = "Greater" /\ ret.yz = "Less" /\ ret.xz = "Equal"

\* ---------------------------------------------------------------- C12
\* The index ranges of two calls share no index.
disjoint(t1, t2) == t1.hi < t2.lo \/ t2.hi < t1.lo

\* Calls that may run at the same time touch disjoint index ranges.
TasksDisjoint == \A t1 \in tasks, t2 \in tasks : t1 # t2 => disjoint(t1, t2)

\* A call that leaves rayon::join in this step has no half still pending or
\* waiting.
ReturnsAfterHalves ==
    \A t \in joins : t \notin joins' => halves(t) \cap (tasks \cup joins) = {}

\* C12: in the fork-join build the calls that run concurrently touch
\* disjoint index ranges, a level returns only after both of its halves have
\* finished, and under every interleaving the finished array is an implicit
\* kd-tree.
C12_ForkJoinBuild ==
    /\ [](TasksDisjoint /\ (Built => ImplicitTree(items, WholeSlice(items), 0)))
    /\ [][ReturnsAfterHalves]_vars

\* Two halves that both select and fork are pending at the same time while
\* their parent waits for them.
C12_Witness ==
    /\ \E t1 \in tasks, t2 \in tasks :
          t1 # t2 /\ SliceLen(t1) >= 2 /\ SliceLen(t2) >= 2
    /\ joins # {}

\* ---------------------------------------------------------------- C13
Faulted == ret.kind = "panic"

\* The box query was given a corner pair that is reversed on some axis.
ReversedCorners ==
    call.op = "within" /\
        \E k \in 0..(Dim - 1) : gt(at(call.query[1], k), at(call.query[2], k))

\* The box query was given a corner pair that fails lo <= hi on some axis:
\* reversed, or with a NaN coordinate.
UnorderedCorners ==
    call.op = "within" /\
        \E k \in 0..(Dim - 1) : ~le(at(call.query[1], k), at(call.query[2], k))

\* A k-nearest search with a buffer of capacity 0 on a tree that has items.
ZeroCapacity == call.op = "nearests" /\ call.capacity = 0 /\ Len(items) > 0

\* Every call of the build made in this step is on a range strictly shorter
\* than the range of the call that made it.
CallsShorter ==
    \A t \in tasks' \ tasks :
        \E up \in tasks \ tasks' : SliceLen(t) < SliceLen(up) /\ t \in halves(up)

\* Both halves that a traversal splits off a non-empty range are strictly
\* shorter than the range.
HalvesShorter ==
    \A lo \in 1..Len(items), hi \in 1..Len(items) :
        lo <= hi =>
            /\ SliceLen(split_at_mid(Slice(lo, hi)).before) < SliceLen(Slice(lo, hi))
            /\ SliceLen(split_at_mid(Slice(lo, hi)).after) < SliceLen(Slice(lo, hi))

count(kdtree, results, p) ==
    Cardinality({i \in 1..Len(results) : kdtree[results[i]] = p})

\* The two range results hold the same items.
SameItems(first, second) ==
    /\ first.kind = second.kind
    /\ \A p \in Points :
          count(items, first.results, p) = count(source, second.results, p)

\* The single-nearest answers on the two trees are at the same distance.
TwinNearestAgrees ==
    call.op = "nearest" =>
        /\ ret.first.kind = ret.second.kind
        /\ ret.first.kind = "Some" => ret.first.dist = ret.second.dist

\* The k-nearest answers on the two trees are the same sequence of distances.
TwinNearestsAgrees ==
    call.op = "nearests" =>
        /\ ret.first.panicked = ret.second.panicked
        /\ BufDists(ret.first.buf) = BufDists(ret.second.buf)

\* The range answers on the two trees hold the same items.
TwinWithinAgrees ==
    call.op \in {"within", "within_radius"} => SameItems(ret.first, ret.second)

\* C14 (as claimed): on two trees built from identical copies of one input,
\* whatever layout each build chose, nearest returns the same minimal
\* distance, the unfiltered k-nearest search returns the same ascending
\* sequence of distances, and within and within_radius return the same items.
C14_Deterministic ==
    ret.kind = "twin" =>
        /\ TwinNearestAgrees
        /\ TwinNearestsAgrees
        /\ TwinWithinAgrees

\* The part of C14 that holds: nearest, within and within_radius agree.
C14_AllButKNearestAgree ==
    ret.kind = "twin" => (TwinNearestAgrees /\ TwinWithinAgrees)

\* ---------------------------------------------------------------- C15
\* C15 (as claimed): in a k-nearest traversal with k >= 1, the non-empty
\* opposite half of a node is searched if and only if the buffer is not yet
\* full or diff * diff is strictly smaller than the distance of the buffer's
\* last (worst) entry; a partly filled buffer never lets it be skipped.
C15_OppositeSearchedUnlessFullAndFar ==
    (call.op = "nearests" /\ call.capacity >= 1 /\ ret.kind = "ok") =>
        \A n \in 1..Len(ret.tests) :
            LET t == ret.tests[n] IN
            t.nonempty =>
                (t.searched <=>
                    (Len(t.buf) < call.capacity \/ lt(t.bound, last(t.buf).dist)))

\* What the code does: the non-empty opposite half is searched if and only
\* if the buffer is empty or diff * diff is strictly smaller than the distance
\* of the buffer's last entry.
C15_OppositeSearchedUnlessFar ==
    (call.op = "nearests" /\ call.capacity >= 1 /\ ret.kind = "ok") =>
        \A n \in 1..Len(ret.tests) :
            LET t == ret.tests[n] IN
            t.nonempty =>
                (t.searched <=>
                    (Len(t.buf) = 0 \/ lt(t.bound, last(t.buf).dist)))

\* ---------------------------------------------------------------- C16
\* The entries of buf hold distinct tree positions.
DistinctPositions(buf) == \A i, j \in 1..Len(buf) : buf[i].pos = buf[j].pos => i = j

\* The entries of `before` that are no longer in `after`.
Evicted(before, after) ==
    {i \in 1..Len(before) : before[i].pos \notin BufPositions(after)}

\* C16: at every step of a k-nearest traversal that starts from an empty
\* buffer of capacity k >= 1, with or without a filter, the buffer is sorted
\* ascending by distance, holds at most k entries and at most one entry per
\* tree position; an entry leaves the buffer only when the buffer is at
\* capacity, and the entry that leaves is the last one, which has the largest
\* distance.
C16_BufferInvariant ==
    (call.op = "nearests" /\ call.capacity >= 1) =>
        /\ ret.kind = "ok"
        /\ \A n \in 1..Len(ret.offers) :
              LET o == ret.offers[n] IN
              /\ Ascending(o.after)
              /\ Len(o.after) <= call.capacity
              /\ DistinctPositions(o.after)
              /\ o.before = (IF n = 1 THEN <<>> ELSE ret.offers[n - 1].after)
              /\ Evicted(o.before, o.after) # {} =>
                    /\ Len(o.before) = call.capacity
                    /\ Evicted(o.before, o.after) = {Len(o.before)}
                    /\ \A i \in 1..Len(o.before) :
                          o.before[i].dist <= last(o.before).dist
        /\ ret.buf = (IF ret.offers = <<>> THEN <<>> ELSE last(ret.offers).after)

\* A full buffer of two or more entries lost its last entry to a closer node
\* that was inserted before the first entry.
C16_Witness ==
    /\ call.op = "nearests" /\ call.capacity >= 2 /\ ret.kind = "ok"
    /\ \E n \in 1..Len(ret.offers) :
          LET o == ret.offers[n] IN
          /\ Evicted(o.before, o.after) # {}
          /\ Len(o.after) = call.capacity
          /\ o.after[1].pos = o.pos

\* ---------------------------------------------------------------- C17
\* a is b reordered: some bijection of the positions carries one to the other.
IsPermutation(a, b) ==
    /\ Len(a) = Len(b)
    /\ \A i \in 1..Len(a) :
          Cardinality({j \in 1..Len(a) : a[j] = a[i]}) =
          Cardinality({j \in 1..Len(b) : b[j] = a[i]})

\* C17: the build only reorders. While and after kd_sort_by runs (in any
\* order of its calls, sequential or forked) the collection is a permutation
\* of the input: no item is lost, duplicated or altered. In the index build
\* the index array is a permutation of 0..n-1 and the caller's collection is
\* never changed.
C17_BuildOnlyReorders ==
    /\ [](~by_index => IsPermutation(items, source))
    /\ [](by_index => /\ Len(items) = Len(source)
                      /\ Range(items) = 0..(Len(source) - 1))
    /\ [][source' = source]_vars

\* An index build has returned with the indices out of their initial order
\* beside the untouched collection.
C17_Witness ==
    /\ Built /\ by_index
    /\ Len(items) = MaxN
    /\ \E i \in 1..Len(items) : items[i] # i - 1
    /\ ImplicitTree([i \in 1..Len(items) |-> source[items[i] + 1]],
                    WholeSlice(items), 0)

\* A build of points has returned with the points reordered.
C17_WitnessPoints ==
    /\ Built /\ ~by_index
    /\ Len(items) = MaxN
    /\ items # source

====
